---- MODULE Spec2Model ----
(***************************************************************************)
(* A model of the deduplicator: the concurrent scanner WalkDirectory, the  *)
(* matcher CompareFiles, and the deletion protocol of main (DeleteFiles /  *)
(* printDeletionPlan).                                                     *)
(*                                                                         *)
(* Paths are sequences of components; an absolute path starts with the     *)
(* component "/".  A file system is the sequence of its entries in the     *)
(* lexical order in which filepath.Walk visits them.                       *)
(***************************************************************************)
EXTENDS Integers, Sequences, FiniteSets, TLC

VARIABLES
    disk,                \* the file system: entries in walk order
    root,                \* WalkDirectory: root argument
    parallelism,         \* WalkDirectory: parallelism argument
    outputYamlToStdout,  \* WalkDirectory: outputYamlToStdout argument
    files,               \* WalkDirectory: var files []FileInfo
    fileChan,            \* "open" | "closed" (unbuffered: a send is a handoff)
    errChan,             \* [buf: buffered errors (cap 1), closed: BOOLEAN]
    wg,                  \* sync.WaitGroup counter
    mu,                  \* sync.Mutex: 0 = free, w = held by worker w
    walker,              \* the walking goroutine: [pc, i: next walk entry]
    worker,              \* worker goroutines: w -> [pc, fileInfo]
    scan,                \* the WalkDirectory call: "off" | "wait" | "returned"
    ret,                 \* what WalkDirectory returned: [dirInfo, err]
    panicked,            \* a goroutine panicked (send on closed channel)
    ioFailed,            \* history: I/O errors that occurred during the scan
    refDirPath,          \* main: -refDir (NoPath when not given)
    targetDirPath,       \* main: -targetDir (NoPath when not given)
    refYaml,             \* main: the file -refYaml names (NoYaml when not given)
    targetYaml,          \* main: the file -targetYaml names
    exactPathMatch,      \* main: -exactPathMatch
    deleteFiles,         \* main: -deleteFiles
    mainpc,              \* main: where the program is
    refDirInfo,          \* main: refDirInfo
    targetDirInfo,       \* main: targetDirInfo
    duplicates,          \* main: duplicates
    input,               \* main: the trimmed confirmation line
    stdout,              \* main: the deletion-plan lines printed
    del,                 \* DeleteFiles: [i: next file, err, tried: indexes]
    zombies,             \* goroutines of returned scans that have a step left
    disk0,               \* history: the file system the run started from
    run,                 \* which run of the program this is: 1 or 2
    firstDup             \* history: the duplicate paths of the first run

scanVars == <<root, parallelism, outputYamlToStdout, files, fileChan, errChan,
              wg, mu, walker, worker, scan, ret, panicked, ioFailed>>

mainVars == <<refDirPath, targetDirPath, refYaml, targetYaml, exactPathMatch,
              deleteFiles, mainpc, refDirInfo, targetDirInfo, duplicates, input,
              stdout, del, zombies, disk0, run, firstDup>>

vars == <<disk, scanVars, mainVars>>

(***************************************************************************)
(* Bounds of the model.                                                    *)
(***************************************************************************)
MaxWorkers == 2

\* The most records a snapshot handed to CompareFiles on its own holds.
MaxFiles == 2

(***************************************************************************)
(* Data.                                                                   *)
(***************************************************************************)
NoPath == <<>>

\* type FileInfo struct { Path string; Hash string }
FileInfo(path, hash) == [Path |-> path, Hash |-> hash]

NoFile == FileInfo(NoPath, "")

\* type DirectoryInfo struct { BaseDir string; Files []FileInfo }
DirectoryInfo(baseDir, fs) == [BaseDir |-> baseDir, Files |-> fs]

NilDir == DirectoryInfo(NoPath, <<>>)

\* sha256 of a file's bytes rendered by %x: one digest per content, the
\* digest of the empty content being the well-known one.
Sha256(content) ==
    CASE content = ""  -> "e3b0c442"
      [] content = "A" -> "559aead0"
      [] content = "B" -> "df7e70e5"
      [] OTHER         -> "6b23c0d5"

Entry(path, kind, content) == [path |-> path, kind |-> kind, content |-> content]

\* The file systems the runs start from, each in filepath.Walk's lexical order:
\* a reference tree under /r and a target tree under /t.
DiskA ==
    << Entry(<<"/", "r">>, "dir", ""),
       Entry(<<"/", "r", "a">>, "file", "A"),
       Entry(<<"/", "r", "d">>, "dir", ""),
       Entry(<<"/", "r", "d", "b">>, "file", "B"),
       Entry(<<"/", "r", "l">>, "symlink", ""),
       Entry(<<"/", "t">>, "dir", ""),
       Entry(<<"/", "t", "a">>, "file", "A"),
       Entry(<<"/", "t", "d">>, "dir", ""),
       Entry(<<"/", "t", "d", "b">>, "file", "B") >>

DiskB ==
    << Entry(<<"/", "r">>, "dir", ""),
       Entry(<<"/", "r", "e">>, "file", ""),
       Entry(<<"/", "t">>, "dir", ""),
       Entry(<<"/", "t", "o">>, "dir", ""),
       Entry(<<"/", "t", "o", "e">>, "file", ""),
       Entry(<<"/", "t", "o", "f">>, "file", "A") >>

DiskC ==
    << Entry(<<"/", "r">>, "dir", ""),
       Entry(<<"/", "r", "a">>, "file", "A"),
       Entry(<<"/", "r", "b">>, "dir", ""),
       Entry(<<"/", "r", "b", "a">>, "file", "A"),
       Entry(<<"/", "t">>, "dir", ""),
       Entry(<<"/", "t", "b">>, "dir", ""),
       Entry(<<"/", "t", "b", "a">>, "file", "A"),
       Entry(<<"/", "t", "l">>, "symlink", "") >>

Disks == {DiskA, DiskB, DiskC}

RefRoot == <<"/", "r">>

TargetRoot == <<"/", "t">>

IsPrefix(p, q) == Len(p) <= Len(q) /\ SubSeq(q, 1, Len(p)) = p

\* The entries filepath.Walk(root, fn) visits, in order.
WalkEntries(d, r) == SelectSeq(d, LAMBDA e : IsPrefix(r, e.path))

Range(s) == {s[i] : i \in DOMAIN s}

(***************************************************************************)
(* path/filepath, on component sequences.                                  *)
(***************************************************************************)

\* filepath.Clean of a path without "." and ".." elements: "" becomes ".".
Clean(p) == IF p = <<>> THEN <<".">> ELSE p

\* Whether a cleaned path starts with the separator.
Slashed(p) == p # <<>> /\ p[1] = "/"

\* The length of the longest common prefix of two component sequences.
RECURSIVE CommonLen(_, _)
CommonLen(p, q) ==
    IF p = <<>> \/ q = <<>> \/ p[1] # q[1] THEN 0
    ELSE 1 + CommonLen(Tail(p), Tail(q))

Drop(p, n) == SubSeq(p, n + 1, Len(p))

\* filepath.Rel(basepath, targpath), with the error result ("", err) rendered
\* as the empty path: the callers drop the error and keep the "".
Rel(basepath, targpath) ==
    LET targ == Clean(targpath)
        base == IF Clean(basepath) = <<".">> THEN <<>> ELSE basepath
        n    == CommonLen(base, targ)
    IN  IF targ = Clean(basepath) THEN <<".">>
        ELSE IF Slashed(base) # Slashed(targ) THEN <<>>
        ELSE [i \in 1..(Len(base) - n) |-> ".."] \o Drop(targ, n)

\* Whether filepath.Rel returns an error.
RelFails(basepath, targpath) ==
    /\ Clean(targpath) # Clean(basepath)
    /\ Slashed(IF Clean(basepath) = <<".">> THEN <<>> ELSE basepath)
         # Slashed(Clean(targpath))

\* filepath.Base(path): the last element; "." for the empty path.
Base(path) == IF path = <<>> THEN "." ELSE path[Len(path)]

(***************************************************************************)
(* The matcher.  A locator is a relative path (a sequence) in exact-path   *)
(* mode and a file name, rendered as a one-element path, in name-only mode.*)
(***************************************************************************)

\* The key a record is filed under: relPath if exactPathMatch, else fileName.
Locator(dirInfo, file, exact) ==
    IF exact THEN Rel(dirInfo.BaseDir, file.Path) ELSE <<Base(file.Path)>>

\* One iteration of the loop of GetFileMapFromDirectoryInfo: the map with the
\* record's locator added under its hash.
AddToFileMap(m, dirInfo, file, exact) ==
    IF file.Hash \in DOMAIN m
    THEN [m EXCEPT ![file.Hash] = @ \cup {Locator(dirInfo, file, exact)}]
    ELSE [h \in DOMAIN m \cup {file.Hash} |->
            IF h = file.Hash THEN {Locator(dirInfo, file, exact)} ELSE m[h]]

\* The map after the first n records: map[hash]map[locator]bool.
RECURSIVE FileMapUpTo(_, _, _)
FileMapUpTo(dirInfo, exact, n) ==
    IF n = 0 THEN [h \in {} |-> {}]
    ELSE AddToFileMap(FileMapUpTo(dirInfo, exact, n - 1), dirInfo,
                      dirInfo.Files[n], exact)

GetFileMapFromDirectoryInfo(dirInfo, exact) ==
    FileMapUpTo(dirInfo, exact, Len(dirInfo.Files))

\* IsDuplicate without the test of the locator: a match on the digest alone.
IsDuplicateByDigest(refFileMap, targetDir, file, exact) ==
    file.Hash \in DOMAIN refFileMap

\* The test CompareFiles makes of one target record against the map.
IsDuplicate(refFileMap, targetDir, file, exact) ==
    /\ file.Hash \in DOMAIN refFileMap
    /\ Locator(targetDir, file, exact) \in refFileMap[file.Hash]

\* CompareFiles that puts each match in front of the earlier ones.
CompareFilesReversed(refDir, targetDir, exact) ==
    LET refFileMap == GetFileMapFromDirectoryInfo(refDir, exact)
        ds == SelectSeq(targetDir.Files,
                        LAMBDA file : IsDuplicate(refFileMap, targetDir, file, exact))
    IN  [k \in DOMAIN ds |-> ds[Len(ds) + 1 - k]]

\* CompareFiles(refDir, targetDir, exactPathMatch): the target records that
\* pass the test, appended in the order of targetDir.Files.
CompareFiles(refDir, targetDir, exact) ==
    LET refFileMap == GetFileMapFromDirectoryInfo(refDir, exact) IN
    SelectSeq(targetDir.Files,
              LAMBDA file : IsDuplicate(refFileMap, targetDir, file, exact))

Workers == 1..MaxWorkers

\* The goroutines WalkDirectory started: for i := 0; i < parallelism; i++
Started == {w \in Workers : w <= parallelism}

(***************************************************************************)
(* WalkDirectory(root, parallelism, outputYamlToStdout)                    *)
(***************************************************************************)

\* A non-blocking send: select { case errChan <- err: default: }.
TrySend(ch, e) ==
    IF Len(ch.buf) < 1 THEN [ch EXCEPT !.buf = Append(@, e)] ELSE ch

NoRet == [dirInfo |-> NilDir, err |-> "nil"]

\* No call of WalkDirectory is in progress.
ScanOff ==
    /\ root = NoPath
    /\ outputYamlToStdout = FALSE
    /\ files = <<>>
    /\ fileChan = "open"
    /\ errChan = [buf |-> <<>>, closed |-> FALSE]
    /\ wg = 0
    /\ mu = 0
    /\ walker = [pc |-> "off", i |-> 1]
    /\ worker = [w \in Workers |-> [pc |-> "off", fileInfo |-> NoFile]]
    /\ scan = "off"
    /\ ret = NoRet
    /\ ioFailed = {}

\* Entry of WalkDirectory(r, parallelism, yaml): make the channels, start the
\* parallelism workers (wg.Add(1) before each go) and the walking goroutine,
\* and go to wg.Wait().
Enter(r, yaml) ==
    /\ scan = "off"
    /\ root' = r
    /\ outputYamlToStdout' = yaml
    /\ files' = <<>>
    /\ fileChan' = "open"
    /\ errChan' = [buf |-> <<>>, closed |-> FALSE]
    /\ wg' = Cardinality(Started)
    /\ mu' = 0
    /\ walker' = [pc |-> "walk", i |-> 1]
    /\ worker' = [w \in Workers |->
                    [pc |-> IF w \in Started THEN "recv" ELSE "off",
                     fileInfo |-> NoFile]]
    /\ scan' = "wait"
    /\ ret' = NoRet
    /\ ioFailed' = {}
    /\ UNCHANGED <<disk, parallelism, panicked>>

\* The walk callback on entry walker.i gets err != nil (the directory cannot be
\* listed, or the entry cannot be lstat-ed) and returns it: Walk stops, the
\* goroutine closes fileChan and goes on to report the error.
WalkFails ==
    /\ walker.pc = "walk"
    /\ walker.i <= Len(WalkEntries(disk, root))
    /\ walker' = [walker EXCEPT !.pc = "report"]
    /\ fileChan' = "closed"
    /\ ioFailed' = ioFailed \cup {"walk"}
    /\ UNCHANGED mainVars
    /\ UNCHANGED <<disk, root, parallelism, outputYamlToStdout, files, errChan,
                   wg, mu, worker, scan, ret, panicked>>

\* The callback on a symlink (skipped) or a directory (nothing sent).
WalkSkip ==
    /\ walker.pc = "walk"
    /\ walker.i <= Len(WalkEntries(disk, root))
    /\ WalkEntries(disk, root)[walker.i].kind \in {"symlink", "dir"}
    /\ walker' = [walker EXCEPT !.i = @ + 1]
    /\ UNCHANGED mainVars
    /\ UNCHANGED <<disk, root, parallelism, outputYamlToStdout, files, fileChan,
                   errChan, wg, mu, worker, scan, ret, panicked, ioFailed>>

\* fileChan <- FileInfo{Path: path}: the channel is unbuffered, so the send
\* completes when a worker blocked in "range fileChan" takes the value.
WalkSend(w) ==
    /\ walker.pc = "walk"
    /\ walker.i <= Len(WalkEntries(disk, root))
    /\ WalkEntries(disk, root)[walker.i].kind \notin {"symlink", "dir"}
    /\ worker[w].pc = "recv"
    /\ worker' = [worker EXCEPT ![w] =
                    [pc |-> "hash",
                     fileInfo |-> FileInfo(WalkEntries(disk, root)[walker.i].path, "")]]
    /\ walker' = [walker EXCEPT !.i = @ + 1]
    /\ UNCHANGED mainVars
    /\ UNCHANGED <<disk, root, parallelism, outputYamlToStdout, files, fileChan,
                   errChan, wg, mu, scan, ret, panicked, ioFailed>>

\* Walk returned nil: close(fileChan); nothing to report.
WalkEnds ==
    /\ walker.pc = "walk"
    /\ walker.i > Len(WalkEntries(disk, root))
    /\ walker' = [walker EXCEPT !.pc = "done"]
    /\ fileChan' = "closed"
    /\ UNCHANGED mainVars
    /\ UNCHANGED <<disk, root, parallelism, outputYamlToStdout, files, errChan,
                   wg, mu, worker, scan, ret, panicked, ioFailed>>

\* if err != nil { select { case errChan <- err: default: } }.  A send on a
\* closed channel panics, also inside a select.
WalkReport ==
    /\ walker.pc = "report"
    /\ walker' = [walker EXCEPT !.pc = "done"]
    /\ IF errChan.closed
       THEN panicked' = TRUE /\ errChan' = errChan
       ELSE panicked' = panicked /\ errChan' = TrySend(errChan, "walk")
    /\ UNCHANGED mainVars
    /\ UNCHANGED <<disk, root, parallelism, outputYamlToStdout, files, fileChan,
                   wg, mu, worker, scan, ret, ioFailed>>

\* The content of the file at path p, as CalculateHash reads it.
ContentAt(d, p) ==
    LET es == SelectSeq(d, LAMBDA e : e.path = p) IN
    IF es = <<>> THEN "" ELSE es[1].content

\* CalculateHash that returns nil without having set f.Hash.
CalculateHashUnset(d, f) == f

\* f.CalculateHash() without error: f.Hash is the digest of the file's bytes.
CalculateHash(d, f) == [f EXCEPT !.Hash = Sha256(ContentAt(d, f.Path))]

\* HashOk that goes on to the append without waiting for the lock.
HashOkNoLock(w) ==
    /\ worker[w].pc = "hash"
    /\ mu' = w
    /\ worker' = [worker EXCEPT ![w].pc = "append",
                                ![w].fileInfo = CalculateHash(disk, @)]
    /\ UNCHANGED mainVars
    /\ UNCHANGED <<disk, root, parallelism, outputYamlToStdout, files, fileChan,
                   errChan, wg, walker, scan, ret, panicked, ioFailed>>

\* fileInfo.CalculateHash() succeeds and the worker takes the lock: mu.Lock().
HashOk(w) ==
    /\ worker[w].pc = "hash"
    /\ mu = 0
    /\ mu' = w
    /\ worker' = [worker EXCEPT ![w].pc = "append",
                                ![w].fileInfo = CalculateHash(disk, @)]
    /\ UNCHANGED mainVars
    /\ UNCHANGED <<disk, root, parallelism, outputYamlToStdout, files, fileChan,
                   errChan, wg, walker, scan, ret, panicked, ioFailed>>

\* CalculateHash fails (open or read error): non-blocking send of the error,
\* then return, which runs the deferred wg.Done().
HashFails(w) ==
    /\ worker[w].pc = "hash"
    /\ worker' = [worker EXCEPT ![w].pc = "done"]
    /\ errChan' = TrySend(errChan, "hash")
    /\ wg' = wg - 1
    /\ ioFailed' = ioFailed \cup {"hash"}
    /\ UNCHANGED mainVars
    /\ UNCHANGED <<disk, root, parallelism, outputYamlToStdout, files, fileChan,
                   mu, walker, scan, ret, panicked>>

\* AppendFile that puts the record in front of files.
AppendFileInFront(w) ==
    /\ worker[w].pc = "append"
    /\ files' = <<worker[w].fileInfo>> \o files
    /\ mu' = 0
    /\ worker' = [worker EXCEPT ![w].pc =
                    IF outputYamlToStdout THEN "marshal" ELSE "recv"]
    /\ UNCHANGED mainVars
    /\ UNCHANGED <<disk, root, parallelism, outputYamlToStdout, fileChan,
                   errChan, wg, walker, scan, ret, panicked, ioFailed>>

\* files = append(files, fileInfo); mu.Unlock()
AppendFile(w) ==
    /\ worker[w].pc = "append"
    /\ files' = Append(files, worker[w].fileInfo)
    /\ mu' = 0
    /\ worker' = [worker EXCEPT ![w].pc =
                    IF outputYamlToStdout THEN "marshal" ELSE "recv"]
    /\ UNCHANGED mainVars
    /\ UNCHANGED <<disk, root, parallelism, outputYamlToStdout, fileChan,
                   errChan, wg, walker, scan, ret, panicked, ioFailed>>

\* yaml.Marshal(&fileInfo) succeeds: the lines are formatted, then mu.Lock().
MarshalOk(w) ==
    /\ worker[w].pc = "marshal"
    /\ mu = 0
    /\ mu' = w
    /\ worker' = [worker EXCEPT ![w].pc = "print"]
    /\ UNCHANGED mainVars
    /\ UNCHANGED <<disk, root, parallelism, outputYamlToStdout, files, fileChan,
                   errChan, wg, walker, scan, ret, panicked, ioFailed>>

\* yaml.Marshal returns an error: the worker goes to "errChan <- err".
MarshalFails(w) ==
    /\ worker[w].pc = "marshal"
    /\ worker' = [worker EXCEPT ![w].pc = "sendErr"]
    /\ ioFailed' = ioFailed \cup {"marshal"}
    /\ UNCHANGED mainVars
    /\ UNCHANGED <<disk, root, parallelism, outputYamlToStdout, files, fileChan,
                   errChan, wg, mu, walker, scan, ret, panicked>>

\* errChan <- err: a blocking send, which needs room in the buffer of 1; then
\* return, which runs the deferred wg.Done().
SendErr(w) ==
    /\ worker[w].pc = "sendErr"
    /\ Len(errChan.buf) < 1
    /\ errChan' = [errChan EXCEPT !.buf = Append(@, "marshal")]
    /\ worker' = [worker EXCEPT ![w].pc = "done"]
    /\ wg' = wg - 1
    /\ UNCHANGED mainVars
    /\ UNCHANGED <<disk, root, parallelism, outputYamlToStdout, files, fileChan,
                   mu, walker, scan, ret, panicked, ioFailed>>

\* fmt.Print(output.String()); mu.Unlock(); next iteration of the range.
PrintEntry(w) ==
    /\ worker[w].pc = "print"
    /\ mu' = 0
    /\ worker' = [worker EXCEPT ![w].pc = "recv"]
    /\ UNCHANGED mainVars
    /\ UNCHANGED <<disk, root, parallelism, outputYamlToStdout, files, fileChan,
                   errChan, wg, walker, scan, ret, panicked, ioFailed>>

\* "range fileChan" ends on the closed channel: the worker returns, which runs
\* the deferred wg.Done().
RangeEnds(w) ==
    /\ worker[w].pc = "recv"
    /\ fileChan = "closed"
    /\ worker' = [worker EXCEPT ![w].pc = "done"]
    /\ wg' = wg - 1
    /\ UNCHANGED mainVars
    /\ UNCHANGED <<disk, root, parallelism, outputYamlToStdout, files, fileChan,
                   errChan, mu, walker, scan, ret, panicked, ioFailed>>

\* What the tail of WalkDirectory returns: the first error buffered in errChan,
\* and with none the snapshot with a nil error.
Returned(r, fs, ch) ==
    IF ch.buf # <<>>
    THEN [dirInfo |-> NilDir, err |-> ch.buf[1]]
    ELSE [dirInfo |-> DirectoryInfo(r, fs), err |-> "nil"]

\* wg.Wait() returns; close(errChan); range errChan; return.
WalkDirectoryReturn ==
    /\ scan = "wait"
    /\ wg = 0
    /\ scan' = "returned"
    /\ errChan' = [errChan EXCEPT !.closed = TRUE]
    /\ ret' = Returned(root, files, errChan)
    /\ UNCHANGED mainVars
    /\ UNCHANGED <<disk, root, parallelism, outputYamlToStdout, files, fileChan,
                   wg, mu, walker, worker, panicked, ioFailed>>

\* The walking goroutine.
Walker ==
    /\ ~panicked
    /\ (WalkFails \/ WalkSkip \/ WalkEnds \/ WalkReport)

\* Worker goroutine w (a send of the walker completes in the worker's receive).
Worker(w) ==
    /\ ~panicked
    /\ \/ WalkSend(w)
       \/ HashOk(w)
       \/ HashFails(w)
       \/ AppendFile(w)
       \/ MarshalOk(w)
       \/ MarshalFails(w)
       \/ SendErr(w)
       \/ PrintEntry(w)
       \/ RangeEnds(w)

\* The goroutine that called WalkDirectory.
Caller == ~panicked /\ WalkDirectoryReturn

ScanStep == Walker \/ (\E w \in Started : Worker(w)) \/ Caller

(***************************************************************************)
(* DeleteFiles and printDeletionPlan.                                      *)
(***************************************************************************)

\* Whether os.Remove(p) can succeed: p names a file, a symlink or an empty
\* directory of d.
Removable(d, p) ==
    /\ \E k \in DOMAIN d : d[k].path = p
    /\ \A k \in DOMAIN d : ~(IsPrefix(p, d[k].path) /\ d[k].path # p)

\* Remove that takes every entry of that name, wherever it lies.
RemoveByName(d, p) == SelectSeq(d, LAMBDA e : Base(e.path) # Base(p))

\* The file system after a successful os.Remove(p).
Remove(d, p) == SelectSeq(d, LAMBDA e : e.path # p)

\* The map printDeletionPlan builds: refFileMap[file.Hash] = file.Path over
\* refDir.Files in order, a later record overwriting an earlier one.
RECURSIVE PlanMapUpTo(_, _)
PlanMapUpTo(refDir, n) ==
    IF n = 0 THEN [h \in {} |-> NoPath]
    ELSE LET m == PlanMapUpTo(refDir, n - 1)
             f == refDir.Files[n]
         IN  [h \in DOMAIN m \cup {f.Hash} |-> IF h = f.Hash THEN f.Path ELSE m[h]]

\* PlanRefPath that keeps the first record of a digest instead of the last.
PlanRefPathFirst(refDir, hash) ==
    LET js == {j \in DOMAIN refDir.Files : refDir.Files[j].Hash = hash} IN
    IF js = {} THEN NoPath
    ELSE refDir.Files[CHOOSE j \in js : \A i \in js : j <= i].Path

\* refFileMap[file.Hash] of a Go map: the zero value "" for a missing key.
PlanRefPath(refDir, hash) ==
    LET m == PlanMapUpTo(refDir, Len(refDir.Files)) IN
    IF hash \in DOMAIN m THEN m[hash] ELSE NoPath

\* printDeletionPlan that looks the reference path up by the duplicate's path
\* instead of its hash: the lookup misses and the entry shows "".
printDeletionPlanByPath(dups, refDir, targetDir) ==
    [k \in DOMAIN dups |-> [rm |-> dups[k].Path, duplicatedAt |-> NoPath]]

\* The lines printDeletionPlan prints: rm "<path>"  # duplicated at: <refPath>
printDeletionPlan(dups, refDir, targetDir) ==
    [k \in DOMAIN dups |->
        [rm |-> dups[k].Path, duplicatedAt |-> PlanRefPath(refDir, dups[k].Hash)]]

(***************************************************************************)
(* main.                                                                   *)
(***************************************************************************)

Space == {" ", "\t", "\n", "\r"}

RECURSIVE TrimLeft(_)
TrimLeft(line) ==
    IF line # <<>> /\ line[1] \in Space THEN TrimLeft(Tail(line)) ELSE line

RECURSIVE TrimRight(_)
TrimRight(line) ==
    IF line # <<>> /\ line[Len(line)] \in Space
    THEN TrimRight(SubSeq(line, 1, Len(line) - 1)) ELSE line

\* strings.TrimSpace
TrimSpace(line) == TrimRight(TrimLeft(line))

\* What reader.ReadString('\n') may return: the line typed, with its newline,
\* or what was there at end of input.
InputLines ==
    { <<"y", "e", "s", "\n">>, <<" ", "y", "e", "s", "\r", "\n">>, <<"y", "e", "s">>,
      <<"n", "o", "\n">>, <<"Y", "e", "s", "\n">>, <<"y", "\n">>, <<"\n">>, <<>> }

\* Confirmed without the comparison: any answer confirms.
ConfirmedAlways(in) == TRUE

\* input == "yes"
Confirmed(in) == in = <<"y", "e", "s">>

\* A YAML file given on the command line and what reading it yields.
NoYaml == [given |-> FALSE, ok |-> FALSE, dirInfo |-> NilDir]

YamlOf(dirInfo) == [given |-> TRUE, ok |-> TRUE, dirInfo |-> dirInfo]

BadYaml == [given |-> TRUE, ok |-> FALSE, dirInfo |-> NilDir]

\* readDirectoryInfoFromYAML
readDirectoryInfoFromYAML(y) ==
    IF y.ok THEN [dirInfo |-> y.dirInfo, err |-> "nil"]
    ELSE [dirInfo |-> NilDir, err |-> "yaml"]

\* Reference snapshots recorded earlier: the reference tree of DiskA.
RefYamls ==
    { YamlOf(DirectoryInfo(RefRoot,
                << FileInfo(<<"/", "r", "d", "b">>, Sha256("B")),
                   FileInfo(<<"/", "r", "a">>, Sha256("A")) >>)),
      BadYaml }

\* Target snapshots recorded earlier: the target tree of DiskA, a snapshot
\* that names one file twice, and a snapshot whose record has the relative
\* path "y/a", which does not lie under its baseDir.
TargetYamls ==
    { YamlOf(DirectoryInfo(TargetRoot,
                << FileInfo(<<"/", "t", "a">>, Sha256("A")),
                   FileInfo(<<"/", "t", "d", "b">>, Sha256("B")) >>)),
      YamlOf(DirectoryInfo(TargetRoot,
                << FileInfo(<<"/", "t", "a">>, Sha256("A")),
                   FileInfo(<<"/", "t", "a">>, Sha256("A")) >>)),
      YamlOf(DirectoryInfo(TargetRoot, << FileInfo(<<"y", "a">>, Sha256("A")) >>)),
      BadYaml }

flagVars == <<refDirPath, targetDirPath, refYaml, targetYaml, exactPathMatch,
              deleteFiles, disk0, run, firstDup>>

\* A goroutine of the returned scan that can still run into a panic: the walker
\* before its send on errChan, which is closed by now.
WalkerLeft == walker.pc = "report" \/ (walker.pc = "walk" /\ walker.i <= Len(WalkEntries(disk, root)))

\* The scan's variables once main has taken the result of WalkDirectory.
ScanTaken ==
    /\ root' = NoPath
    /\ outputYamlToStdout' = FALSE
    /\ files' = <<>>
    /\ fileChan' = "open"
    /\ errChan' = [buf |-> <<>>, closed |-> FALSE]
    /\ wg' = 0
    /\ mu' = 0
    /\ walker' = [pc |-> "off", i |-> 1]
    /\ worker' = [w \in Workers |-> [pc |-> "off", fileInfo |-> NoFile]]
    /\ scan' = "off"
    /\ ret' = NoRet
    /\ ioFailed' = {}
    /\ zombies' = (zombies \/ WalkerLeft)
    /\ UNCHANGED <<disk, parallelism, panicked>>

\* refDirInfo, err = readDirectoryInfoFromYAML(*refYamlPath)
ReadRefYaml ==
    /\ mainpc = "start"
    /\ refYaml.given
    /\ LET r == readDirectoryInfoFromYAML(refYaml) IN
       IF r.err # "nil"
       THEN mainpc' = "exit1" /\ refDirInfo' = refDirInfo
       ELSE mainpc' = "haveRef" /\ refDirInfo' = r.dirInfo
    /\ UNCHANGED <<disk, scanVars, flagVars, targetDirInfo, duplicates, input,
                   stdout, del, zombies>>

\* refDirInfo, err = WalkDirectory(*refDirPath, *parallelism, *targetDirPath == "")
WalkRef ==
    /\ mainpc = "start"
    /\ ~refYaml.given
    /\ refDirPath # NoPath
    /\ Enter(refDirPath, targetDirPath = NoPath)
    /\ mainpc' = "walkRef"
    /\ UNCHANGED <<flagVars, refDirInfo, targetDirInfo, duplicates, input,
                   stdout, del, zombies>>

\* "Reference directory path or YAML file must be provided"; os.Exit(1)
NoRef ==
    /\ mainpc = "start"
    /\ ~refYaml.given
    /\ refDirPath = NoPath
    /\ mainpc' = "exit1"
    /\ UNCHANGED <<disk, scanVars, flagVars, refDirInfo, targetDirInfo, duplicates,
                   input, stdout, del, zombies>>

\* WalkDirectory returned to the reference branch of main.
RefWalked ==
    /\ mainpc = "walkRef"
    /\ scan = "returned"
    /\ IF ret.err # "nil"
       THEN mainpc' = "exit1" /\ refDirInfo' = refDirInfo
       ELSE mainpc' = "haveRef" /\ refDirInfo' = ret.dirInfo
    /\ ScanTaken
    /\ UNCHANGED <<flagVars, targetDirInfo, duplicates, input, stdout, del>>

\* No target and -refDir given: nothing more is written; return.
NoTarget ==
    /\ mainpc = "haveRef"
    /\ targetDirPath = NoPath /\ ~targetYaml.given
    /\ refDirPath # NoPath
    /\ mainpc' = "done"
    /\ UNCHANGED <<disk, scanVars, flagVars, refDirInfo, targetDirInfo, duplicates,
                   input, stdout, del, zombies>>

\* No target and a reference from YAML: validate the directory against it,
\* currentRefDirInfo, err := WalkDirectory(refDirInfo.BaseDir, *parallelism, false)
Validate ==
    /\ mainpc = "haveRef"
    /\ targetDirPath = NoPath /\ ~targetYaml.given
    /\ refDirPath = NoPath
    /\ Enter(refDirInfo.BaseDir, FALSE)
    /\ mainpc' = "walkVal"
    /\ UNCHANGED <<flagVars, refDirInfo, targetDirInfo, duplicates, input,
                   stdout, del, zombies>>

\* The validation loop: exit 1 on a walk error or on the first file whose hash
\* the YAML does not hold.
Validated ==
    /\ mainpc = "walkVal"
    /\ scan = "returned"
    /\ LET refFileMap == GetFileMapFromDirectoryInfo(refDirInfo, exactPathMatch) IN
       IF \/ ret.err # "nil"
          \/ \E k \in DOMAIN ret.dirInfo.Files :
                ret.dirInfo.Files[k].Hash \notin DOMAIN refFileMap
       THEN mainpc' = "exit1"
       ELSE mainpc' = "done"
    /\ ScanTaken
    /\ UNCHANGED <<flagVars, refDirInfo, targetDirInfo, duplicates, input, stdout, del>>

\* targetDirInfo, err = readDirectoryInfoFromYAML(*targetYamlPath)
ReadTargetYaml ==
    /\ mainpc = "haveRef"
    /\ targetYaml.given
    /\ LET r == readDirectoryInfoFromYAML(targetYaml) IN
       IF r.err # "nil"
       THEN mainpc' = "exit1" /\ targetDirInfo' = targetDirInfo
       ELSE mainpc' = "compare" /\ targetDirInfo' = r.dirInfo
    /\ UNCHANGED <<disk, scanVars, flagVars, refDirInfo, duplicates, input,
                   stdout, del, zombies>>

\* targetDirInfo, err = WalkDirectory(*targetDirPath, *parallelism, true)
WalkTarget ==
    /\ mainpc = "haveRef"
    /\ ~targetYaml.given
    /\ targetDirPath # NoPath
    /\ Enter(targetDirPath, TRUE)
    /\ mainpc' = "walkTarget"
    /\ UNCHANGED <<flagVars, refDirInfo, targetDirInfo, duplicates, input,
                   stdout, del, zombies>>

\* WalkDirectory returned to the target branch of main.
TargetWalked ==
    /\ mainpc = "walkTarget"
    /\ scan = "returned"
    /\ IF ret.err # "nil"
       THEN mainpc' = "exit1" /\ targetDirInfo' = targetDirInfo
       ELSE mainpc' = "compare" /\ targetDirInfo' = ret.dirInfo
    /\ ScanTaken
    /\ UNCHANGED <<flagVars, refDirInfo, duplicates, input, stdout, del>>

\* duplicates := CompareFiles(refDirInfo, targetDirInfo, *exactPathMatch)
Compare ==
    /\ mainpc = "compare"
    /\ duplicates' = CompareFiles(refDirInfo, targetDirInfo, exactPathMatch)
    /\ mainpc' = "decide"
    /\ UNCHANGED <<disk, scanVars, flagVars, refDirInfo, targetDirInfo, input,
                   stdout, del, zombies>>

\* -deleteFiles: prompt, read a line, trim it; "yes" goes on to DeleteFiles,
\* anything else prints "File deletion aborted." and the plan.
Confirm ==
    /\ mainpc = "decide"
    /\ deleteFiles
    /\ \E line \in InputLines :
         /\ input' = TrimSpace(line)
         /\ IF Confirmed(TrimSpace(line))
            THEN mainpc' = "delete" /\ stdout' = stdout
            ELSE /\ mainpc' = "done"
                 /\ stdout' = printDeletionPlan(duplicates, refDirInfo, targetDirInfo)
    /\ UNCHANGED <<disk, scanVars, flagVars, refDirInfo, targetDirInfo, duplicates,
                   del, zombies>>

\* Without -deleteFiles: printDeletionPlan(duplicates, refDirInfo, targetDirInfo)
PrintPlan ==
    /\ mainpc = "decide"
    /\ ~deleteFiles
    /\ stdout' = printDeletionPlan(duplicates, refDirInfo, targetDirInfo)
    /\ mainpc' = "done"
    /\ UNCHANGED <<disk, scanVars, flagVars, refDirInfo, targetDirInfo, duplicates,
                   input, del, zombies>>

\* DeleteFiles, one iteration whose os.Remove(file.Path) succeeds.
RemoveOk ==
    /\ mainpc = "delete"
    /\ del.i <= Len(duplicates)
    /\ Removable(disk, duplicates[del.i].Path)
    /\ disk' = Remove(disk, duplicates[del.i].Path)
    /\ del' = [del EXCEPT !.i = @ + 1, !.tried = @ \cup {del.i}]
    /\ UNCHANGED <<scanVars, flagVars, mainpc, refDirInfo, targetDirInfo, duplicates,
                   input, stdout, zombies>>

\* RemoveFails that goes on to the next file before it returns the error.
RemoveFailsGoesOn ==
    /\ mainpc = "delete"
    /\ del.i <= Len(duplicates)
    /\ del' = [del EXCEPT !.err = TRUE,
                 !.tried = @ \cup ({del.i, del.i + 1} \cap DOMAIN duplicates)]
    /\ disk' = IF del.i + 1 \in DOMAIN duplicates
               THEN SelectSeq(disk, LAMBDA e : e.path # duplicates[del.i + 1].Path)
               ELSE disk
    /\ mainpc' = "exit1"
    /\ UNCHANGED <<scanVars, flagVars, refDirInfo, targetDirInfo, duplicates,
                   input, stdout, zombies>>

\* DeleteFiles, the iteration whose os.Remove fails (the path is not there, or
\* may not be removed): return err; main prints it and exits with 1.
RemoveFails ==
    /\ mainpc = "delete"
    /\ del.i <= Len(duplicates)
    /\ del' = [del EXCEPT !.err = TRUE, !.tried = @ \cup {del.i}]
    /\ mainpc' = "exit1"
    /\ UNCHANGED <<disk, scanVars, flagVars, refDirInfo, targetDirInfo, duplicates,
                   input, stdout, zombies>>

\* DeleteFiles returns nil after the last file.
DeleteFilesReturn ==
    /\ mainpc = "delete"
    /\ del.i > Len(duplicates)
    /\ mainpc' = "done"
    /\ UNCHANGED <<disk, scanVars, flagVars, refDirInfo, targetDirInfo, duplicates,
                   input, stdout, del, zombies>>

\* A goroutine left over from a returned scan sends on the closed errChan.
ZombiePanic ==
    /\ zombies
    /\ mainpc \notin {"done", "exit1"}
    /\ panicked' = TRUE
    /\ UNCHANGED <<disk, root, parallelism, outputYamlToStdout, files, fileChan,
                   errChan, wg, mu, walker, worker, scan, ret, ioFailed, mainVars>>

PathSet(fs) == {fs[k].Path : k \in DOMAIN fs}

\* The program is run a second time with the same flags over the trees the
\* first run left unchanged.
Rerun ==
    /\ mainpc = "done"
    /\ run = 1
    /\ disk = disk0
    /\ targetDirPath # NoPath \/ targetYaml.given
    /\ run' = 2
    /\ firstDup' = PathSet(duplicates)
    /\ mainpc' = "start"
    /\ refDirInfo' = NilDir
    /\ targetDirInfo' = NilDir
    /\ duplicates' = <<>>
    /\ input' = <<>>
    /\ stdout' = <<>>
    /\ del' = [i |-> 1, err |-> FALSE, tried |-> {}]
    /\ zombies' = FALSE
    /\ UNCHANGED <<disk, scanVars, refDirPath, targetDirPath, refYaml, targetYaml,
                   exactPathMatch, deleteFiles, disk0>>

Main ==
    /\ ~panicked
    /\ \/ ReadRefYaml
       \/ WalkRef
       \/ NoRef
       \/ RefWalked
       \/ NoTarget
       \/ Validate
       \/ Validated
       \/ ReadTargetYaml
       \/ WalkTarget
       \/ TargetWalked
       \/ Compare
       \/ Confirm
       \/ PrintPlan
       \/ RemoveOk
       \/ RemoveFails
       \/ DeleteFilesReturn
       \/ ZombiePanic

\* main has not started: the state of its variables in a test of a function.
MainOff ==
    /\ refDirPath = NoPath
    /\ targetDirPath = NoPath
    /\ refYaml = NoYaml
    /\ targetYaml = NoYaml
    /\ exactPathMatch = TRUE
    /\ deleteFiles = FALSE
    /\ mainpc = "test"
    /\ refDirInfo = NilDir
    /\ targetDirInfo = NilDir
    /\ duplicates = <<>>
    /\ input = <<>>
    /\ stdout = <<>>
    /\ del = [i |-> 1, err |-> FALSE, tried |-> {}]
    /\ zombies = FALSE
    /\ disk0 = disk
    /\ run = 1
    /\ firstDup = {}

(***************************************************************************)
(* Spec: a run of the program, and a second run over unchanged trees.      *)
(***************************************************************************)
Init ==
    /\ disk \in Disks
    /\ disk0 = disk
    /\ parallelism \in 0..MaxWorkers
    /\ panicked = FALSE
    /\ ScanOff
    /\ \E src \in {"dir", "yaml", "none"} :
         /\ refDirPath = IF src = "dir" THEN RefRoot ELSE NoPath
         /\ refYaml \in IF src = "yaml" THEN RefYamls ELSE {NoYaml}
    /\ \E src \in {"dir", "yaml", "none"} :
         /\ targetDirPath = IF src = "dir" THEN TargetRoot ELSE NoPath
         /\ targetYaml \in IF src = "yaml" THEN TargetYamls ELSE {NoYaml}
    /\ exactPathMatch \in BOOLEAN
    /\ deleteFiles \in BOOLEAN
    /\ mainpc = "start"
    /\ refDirInfo = NilDir
    /\ targetDirInfo = NilDir
    /\ duplicates = <<>>
    /\ input = <<>>
    /\ stdout = <<>>
    /\ del = [i |-> 1, err |-> FALSE, tried |-> {}]
    /\ zombies = FALSE
    /\ run = 1
    /\ firstDup = {}

Next == Main \/ ScanStep \/ Rerun

Spec == Init /\ [][Next]_vars

(***************************************************************************)
(* SpecSelf: the runs of the program whose --target, when it is a          *)
(* directory, is the directory given as --ref.                             *)
(***************************************************************************)
InitSelf ==
    /\ disk \in Disks
    /\ disk0 = disk
    /\ parallelism \in 0..MaxWorkers
    /\ panicked = FALSE
    /\ ScanOff
    /\ \E src \in {"dir", "yaml", "none"} :
         /\ refDirPath = IF src = "dir" THEN RefRoot ELSE NoPath
         /\ refYaml \in IF src = "yaml" THEN RefYamls ELSE {NoYaml}
    /\ \E src \in {"dir", "yaml", "none"} :
         /\ targetDirPath = IF src = "dir" THEN RefRoot ELSE NoPath
         /\ targetYaml \in IF src = "yaml" THEN TargetYamls ELSE {NoYaml}
    /\ exactPathMatch \in BOOLEAN
    /\ deleteFiles \in BOOLEAN
    /\ mainpc = "start"
    /\ refDirInfo = NilDir
    /\ targetDirInfo = NilDir
    /\ duplicates = <<>>
    /\ input = <<>>
    /\ stdout = <<>>
    /\ del = [i |-> 1, err |-> FALSE, tried |-> {}]
    /\ zombies = FALSE
    /\ run = 1
    /\ firstDup = {}

SpecSelf == InitSelf /\ [][Next]_vars

(***************************************************************************)
(* SpecScan: WalkDirectory called on its own, as TestWalkDirectory does,   *)
(* on either tree, with any parallelism, with and without YAML streaming.  *)
(***************************************************************************)
InitScan ==
    /\ disk \in Disks
    /\ parallelism \in -1..MaxWorkers
    /\ panicked = FALSE
    /\ ScanOff
    /\ MainOff

TestWalkDirectory ==
    /\ mainpc = "test"
    /\ \E r \in {RefRoot, TargetRoot}, yaml \in BOOLEAN : Enter(r, yaml)
    /\ UNCHANGED mainVars

NextScan == TestWalkDirectory \/ ScanStep

SpecScan == InitScan /\ [][NextScan]_vars

\* The Go scheduler runs every goroutine that can take a step.
FairScan ==
    /\ WF_vars(Walker)
    /\ \A w \in Workers : WF_vars(Worker(w))
    /\ WF_vars(Caller)
    /\ WF_vars(TestWalkDirectory)

SpecScanFair == SpecScan /\ FairScan

(***************************************************************************)
(* SpecMatch: CompareFiles called on its own, as TestCompareFiles does, on *)
(* any two snapshots of at most MaxFiles records.  A snapshot read from    *)
(* YAML may hold any paths, also paths that do not lie under its baseDir   *)
(* (here the relative paths "x/a" and "y/a"); the snapshot of a scan whose *)
(* root is a regular file holds the record of the root itself.             *)
(***************************************************************************)
Digests == {Sha256(""), Sha256("A")}

RefRecords ==
    {FileInfo(p, h) : p \in {RefRoot \o <<"a">>, RefRoot \o <<"d", "a">>, <<"x", "a">>,
                             RefRoot},
                      h \in Digests}

TargetRecords ==
    {FileInfo(p, h) : p \in {TargetRoot \o <<"a">>, TargetRoot \o <<"d", "a">>,
                             TargetRoot \o <<"b">>, <<"y", "a">>, TargetRoot},
                      h \in Digests}

SeqsUpTo(S, n) == UNION {[1..k -> S] : k \in 0..n}

InitMatch ==
    /\ disk = DiskA
    /\ parallelism = 1
    /\ panicked = FALSE
    /\ ScanOff
    /\ refDirPath = NoPath
    /\ targetDirPath = NoPath
    /\ refYaml = NoYaml
    /\ targetYaml = NoYaml
    /\ exactPathMatch \in BOOLEAN
    /\ deleteFiles = FALSE
    /\ mainpc = "compare"
    /\ refDirInfo \in {DirectoryInfo(RefRoot, fs) : fs \in SeqsUpTo(RefRecords, MaxFiles)}
    /\ targetDirInfo \in
         {DirectoryInfo(TargetRoot, fs) : fs \in SeqsUpTo(TargetRecords, MaxFiles)}
    /\ duplicates = <<>>
    /\ input = <<>>
    /\ stdout = <<>>
    /\ del = [i |-> 1, err |-> FALSE, tried |-> {}]
    /\ zombies = FALSE
    /\ disk0 = disk
    /\ run = 1
    /\ firstDup = {}

NextMatch == Compare

SpecMatch == InitMatch /\ [][NextMatch]_vars

(***************************************************************************)
(* SpecPlan: CompareFiles and then printDeletionPlan, as main runs them    *)
(* without -deleteFiles, on any two snapshots of at most MaxFiles records. *)
(***************************************************************************)
NextPlan == Compare \/ PrintPlan

SpecPlan == InitMatch /\ [][NextPlan]_vars

(***************************************************************************)
(* The claims.                                                             *)
(***************************************************************************)

\* The data model's invariant of a snapshot: every record's path lies under
\* the snapshot's baseDir.
UnderBaseDir(dirInfo) ==
    \A k \in DOMAIN dirInfo.Files : IsPrefix(dirInfo.BaseDir, dirInfo.Files[k].Path)

\* A record's path relative to its snapshot's baseDir: what follows the baseDir.
RelativePath(dirInfo, file) == Drop(file.Path, Len(dirInfo.BaseDir))

\* A record's base file name: the last element of its path.
BaseName(file) == file.Path[Len(file.Path)]

\* CompareFiles has returned.
Compared == mainpc = "decide"

\* Whether a record has a path relative to its snapshot's baseDir at all:
\* filepath.Rel can make its path relative to the baseDir.
HasRelativePath(dirInfo, file) == ~RelFails(dirInfo.BaseDir, file.Path)

\* C3: in exact-path mode, for all reference and target snapshots, a target
\* record is in the result of CompareFiles if and only if some reference
\* record has the same digest and the same path relative to its own baseDir.
C3_ExactPathIff ==
    (Compared /\ exactPathMatch)
    => \A k \in DOMAIN targetDirInfo.Files :
         LET t == targetDirInfo.Files[k] IN
         (t \in Range(duplicates))
         <=> (\E j \in DOMAIN refDirInfo.Files :
                LET r == refDirInfo.Files[j] IN
                /\ r.Hash = t.Hash
                /\ HasRelativePath(refDirInfo, r)
                /\ HasRelativePath(targetDirInfo, t)
                /\ Rel(refDirInfo.BaseDir, r.Path) = Rel(targetDirInfo.BaseDir, t.Path))

\* What does hold of exact-path mode: the equivalence of C3 for snapshots that
\* keep the data model's invariant, relative paths being what follows the
\* baseDir.
ExactPathIffUnderBaseDir ==
    (Compared /\ exactPathMatch /\ UnderBaseDir(refDirInfo) /\ UnderBaseDir(targetDirInfo))
    => \A k \in DOMAIN targetDirInfo.Files :
         LET t == targetDirInfo.Files[k] IN
         (t \in Range(duplicates))
         <=> (\E j \in DOMAIN refDirInfo.Files :
                LET r == refDirInfo.Files[j] IN
                /\ r.Hash = t.Hash
                /\ RelativePath(refDirInfo, r) = RelativePath(targetDirInfo, t))

\* C4: in name-only mode a target record is in the result of CompareFiles if
\* and only if some reference record, anywhere in the reference snapshot, has
\* the same digest and the same base file name.
C4_NameOnlyIff ==
    (Compared /\ ~exactPathMatch)
    => \A k \in DOMAIN targetDirInfo.Files :
         LET t == targetDirInfo.Files[k] IN
         (t \in Range(duplicates))
         <=> (\E j \in DOMAIN refDirInfo.Files :
                LET r == refDirInfo.Files[j] IN
                r.Hash = t.Hash /\ BaseName(r) = BaseName(t))

\* C4's case: name-only mode reported a record whose directory differs from
\* that of the reference record, and left out a record whose digest the
\* reference holds only under another base name.
C4_Witness ==
    /\ Compared /\ ~exactPathMatch
    /\ UnderBaseDir(refDirInfo) /\ UnderBaseDir(targetDirInfo)
    /\ \E k \in DOMAIN targetDirInfo.Files :
         LET t == targetDirInfo.Files[k] IN
         /\ t \in Range(duplicates)
         /\ \A j \in DOMAIN refDirInfo.Files :
              RelativePath(refDirInfo, refDirInfo.Files[j]) # RelativePath(targetDirInfo, t)
    /\ \E k \in DOMAIN targetDirInfo.Files :
         LET t == targetDirInfo.Files[k] IN
         /\ t \notin Range(duplicates)
         /\ \E j \in DOMAIN refDirInfo.Files : refDirInfo.Files[j].Hash = t.Hash

\* A target was given, so the run goes on to CompareFiles and the deletion.
HasTarget == targetDirPath # NoPath \/ targetYaml.given

Paths(d) == {d[k].path : k \in DOMAIN d}

\* C1: no file is removed unless -deleteFiles is set and the answer is "yes";
\* a run that ends with the confirmation withheld (flag unset, or any other
\* answer) has left every file on disk and has printed exactly one plan entry
\* per member of the DuplicateSet, for that member.
C1_DeletionGated ==
    /\ (disk # disk0) => (deleteFiles /\ input = <<"y", "e", "s">>)
    /\ (mainpc = "done" /\ HasTarget /\ ~(deleteFiles /\ input = <<"y", "e", "s">>))
       => /\ disk = disk0
          /\ DOMAIN stdout = DOMAIN duplicates
          /\ \A k \in DOMAIN duplicates : stdout[k].rm = duplicates[k].Path

\* C1's case: -deleteFiles is set, the answer is not "yes", two duplicates were
\* found: the run ends with both target files on disk and two plan entries.
C1_Witness ==
    /\ mainpc = "done"
    /\ deleteFiles
    /\ input = <<"n", "o">>
    /\ Len(duplicates) = 2
    /\ Len(stdout) = 2
    /\ \A k \in DOMAIN duplicates : duplicates[k].Path \in Paths(disk)

\* DeleteFiles returned nil: deletion was confirmed and no removal failed.
Deleted == mainpc = "done" /\ HasTarget /\ deleteFiles /\ Confirmed(input)

\* C2: at every moment of a run the files missing from the disk are paths of
\* the DuplicateSet and nothing on disk is new or changed; once DeleteFiles
\* has returned without error the files removed are exactly the paths of the
\* DuplicateSet.
C2_RemovesExactlyDuplicates ==
    /\ Range(disk) \subseteq Range(disk0)
    /\ (Paths(disk0) \ Paths(disk)) \subseteq PathSet(duplicates)
    /\ Deleted => (Paths(disk0) \ Paths(disk)) = PathSet(duplicates)

\* C2's case: a confirmed deletion of two duplicates has returned.
C2_Witness ==
    /\ Deleted
    /\ Len(duplicates) = 2
    /\ Cardinality(Paths(disk0) \ Paths(disk)) = 2

\* DeleteFiles returned the error of the removal of entry del.i.
DeleteFailed == mainpc = "exit1" /\ del.err

\* The paths of the entries before entry i of the DuplicateSet.
PathsBefore(i) == {duplicates[k].Path : k \in 1..(i - 1)}

\* C9 as stated: when the removal of entry i fails, the entries before i are
\* gone, entry i and all later entries are still on disk, and no later removal
\* was attempted.
C9_FailFastStillOnDisk ==
    DeleteFailed
    => /\ \A k \in DOMAIN duplicates :
            (k < del.i) => duplicates[k].Path \notin Paths(disk)
       /\ \A k \in DOMAIN duplicates :
            (k >= del.i) => duplicates[k].Path \in Paths(disk)
       /\ del.tried = 1..del.i

\* C9 as amended: when the removal of entry i fails, the entries before i have
\* been removed, no later removal was attempted, and everything else is as it
\* was before the call: entry i and the later entries are still on disk if
\* they were on disk and are not also named by an earlier entry.
C9_FailFast ==
    DeleteFailed
    => /\ PathsBefore(del.i) \subseteq Paths(disk0)
       /\ disk = SelectSeq(disk0, LAMBDA e : e.path \notin PathsBefore(del.i))
       /\ del.tried = 1..del.i

\* C9's case: the removal of the second of two duplicates failed after the
\* first was removed.
C9_Witness ==
    /\ DeleteFailed
    /\ Len(duplicates) = 2
    /\ del.i = 2
    /\ duplicates[1].Path \notin Paths(disk)
    /\ duplicates[2].Path \in Paths(disk)

\* The regular files under the root of the scan, in walk order.
RegularFiles == SelectSeq(WalkEntries(disk, root), LAMBDA e : e.kind = "file")

\* The records of a snapshot that name path p.
RecordsAt(dirInfo, p) == {k \in DOMAIN dirInfo.Files : dirInfo.Files[k].Path = p}

\* WalkDirectory returned a snapshot and a nil error.
ScanSucceeded == scan = "returned" /\ ret.err = "nil"

\* C5: if an I/O error occurred during the scan, WalkDirectory returns an
\* error and no snapshot (stated here for scans with at least one worker).
C5_ErrorFailsScan ==
    (scan = "returned" /\ parallelism >= 1 /\ ioFailed # {})
    => (ret.err # "nil" /\ ret.dirInfo = NilDir)

\* C6: a call of WalkDirectory with at least one worker returns: as long as it
\* has not returned, some goroutine can take a step.
C6_ScanReturns ==
    (parallelism >= 1 /\ scan # "returned") => ENABLED NextScan

\* C7: WalkDirectory with parallelism <= 0 never returns a successful snapshot
\* that omits a regular file of the tree.
C7_NoWorkersNoLoss ==
    (ScanSucceeded /\ parallelism <= 0)
    => \A k \in DOMAIN RegularFiles :
         RecordsAt(ret.dirInfo, RegularFiles[k].path) # {}

\* C8: with at least one worker, a scan that returns without error holds
\* exactly one record per regular file under the root and no record of a
\* directory or a symbolic link.
C8_OneRecordPerFile ==
    (ScanSucceeded /\ parallelism >= 1)
    => /\ \A k \in DOMAIN RegularFiles :
            Cardinality(RecordsAt(ret.dirInfo, RegularFiles[k].path)) = 1
       /\ \A k \in DOMAIN ret.dirInfo.Files :
            \E j \in DOMAIN RegularFiles :
               RegularFiles[j].path = ret.dirInfo.Files[k].Path

\* C10: the second run of scan and match over the unchanged trees yields the
\* same set of duplicate paths as the first, with at least one worker.
C10_SameDuplicatesTwice ==
    (run = 2 /\ Compared /\ parallelism >= 1) => PathSet(duplicates) = firstDup

\* main has ended after printDeletionPlan: the deletion was not confirmed.
PlanPrinted == mainpc = "done" /\ ~(deleteFiles /\ Confirmed(input))

\* The paths of the reference records that carry a digest.
RefPathsOf(hash) ==
    {refDirInfo.Files[j].Path : j \in {i \in DOMAIN refDirInfo.Files :
                                        refDirInfo.Files[i].Hash = hash}}

\* C11: printDeletionPlan emits exactly one entry per member of the
\* DuplicateSet, in its order, and the reference path of each entry is the
\* path of a reference record with the duplicate's digest, never "".
C11_PlanEntries ==
    PlanPrinted
    => /\ Len(stdout) = Len(duplicates)
       /\ \A k \in DOMAIN duplicates :
            /\ stdout[k].rm = duplicates[k].Path
            /\ stdout[k].duplicatedAt \in RefPathsOf(duplicates[k].Hash)
            /\ stdout[k].duplicatedAt # NoPath

\* C11's case: a plan of two entries for two duplicates of different digests,
\* each shown with its own reference path.
C11_Witness ==
    /\ PlanPrinted
    /\ Len(duplicates) = 2
    /\ Len(stdout) = 2
    /\ duplicates[1].Hash # duplicates[2].Hash
    /\ stdout[1].duplicatedAt # stdout[2].duplicatedAt

\* The indexes of the reference records that carry a digest.
RefIndexesOf(hash) ==
    {j \in DOMAIN refDirInfo.Files : refDirInfo.Files[j].Hash = hash}

\* C18 as stated: when several reference records share a duplicate's digest,
\* the plan entry shows the first of them in reference-snapshot order.
C18_PlanShowsFirst ==
    PlanPrinted
    => \A k \in DOMAIN duplicates :
         \E j \in RefIndexesOf(duplicates[k].Hash) :
            /\ \A i \in RefIndexesOf(duplicates[k].Hash) : j <= i
            /\ stdout[k].duplicatedAt = refDirInfo.Files[j].Path

\* C18 as amended: the plan entry shows the last reference record of the
\* duplicate's digest in reference-snapshot order.
C18_PlanShowsLast ==
    PlanPrinted
    => \A k \in DOMAIN duplicates :
         \E j \in RefIndexesOf(duplicates[k].Hash) :
            /\ \A i \in RefIndexesOf(duplicates[k].Hash) : i <= j
            /\ stdout[k].duplicatedAt = refDirInfo.Files[j].Path

\* C18's case: two reference records of different paths share the digest of
\* a duplicate, and the plan shows the second.
C18_Witness ==
    /\ PlanPrinted
    /\ Len(duplicates) >= 1
    /\ Len(refDirInfo.Files) = 2
    /\ refDirInfo.Files[1].Hash = duplicates[1].Hash
    /\ refDirInfo.Files[2].Hash = duplicates[1].Hash
    /\ refDirInfo.Files[1].Path # refDirInfo.Files[2].Path
    /\ stdout[1].duplicatedAt = refDirInfo.Files[2].Path

\* C12: WalkDirectory never crashes: no goroutine sends on errChan after the
\* caller has closed it (such a send panics).
C12_NoCrash == ~panicked

\* A worker has reported a hashing error in this scan.
HashErrorReported == "hash" \in ioFailed

\* The walker hands a file to worker w in this step.
Submits(w) == worker[w].pc = "recv" /\ worker'[w].pc = "hash"

\* C13: once a worker has reported a hashing error the walker submits no
\* further file to fileChan.
C13_NoSubmitAfterHashError ==
    [][HashErrorReported => \A w \in Workers : ~Submits(w)]_vars

\* The workers that are in a critical section of mu: at the append to files
\* or at the print of a YAML entry.
Appending == {w \in Workers : worker[w].pc = "append"}

Printing == {w \in Workers : worker[w].pc = "print"}

\* C14: at most one worker is appending to files at any moment, every append
\* happens with the lock held by the appending worker, and nobody else is in
\* a section the lock guards.
C14_AppendUnderLock ==
    /\ Cardinality(Appending) <= 1
    /\ \A w \in Appending : mu = w /\ Printing = {}
    /\ \A w \in Printing : mu = w

\* C14's case: one worker is appending while another has hashed its file and
\* waits for the lock.
C14_Witness ==
    \E w \in Workers, v \in Workers :
       /\ w # v
       /\ worker[w].pc = "append" /\ mu = w
       /\ worker[v].pc = "hash"
       /\ ~ENABLED HashOk(v)

\* The files whose hashing failed in this scan: a worker that returns on the
\* error keeps the record it could not hash.
HashFailedPaths ==
    {worker[w].fileInfo.Path : w \in {v \in Workers : /\ worker[v].pc = "done"
                                                       /\ worker[v].fileInfo # NoFile
                                                       /\ worker[v].fileInfo.Hash = ""}}

\* Every record of fs carries the digest of the content of its file, and
\* records of identical content carry identical digests.
FullDigests(fs) ==
    /\ \A k \in DOMAIN fs :
         /\ fs[k].Hash # ""
         /\ fs[k].Hash = Sha256(ContentAt(disk, fs[k].Path))
    /\ \A j \in DOMAIN fs, k \in DOMAIN fs :
         (ContentAt(disk, fs[j].Path) = ContentAt(disk, fs[k].Path))
         => fs[j].Hash = fs[k].Hash

\* C15: a file whose hashing fails is never appended to files, and every
\* record collected, and so every record of a returned snapshot, carries the
\* complete digest of its file's content.
C15_FullDigestsOnly ==
    /\ HashFailedPaths \cap PathSet(files) = {}
    /\ FullDigests(files)
    /\ FullDigests(ret.dirInfo.Files)

\* C15's case: the hashing of one file failed, the record of another file was
\* appended with its digest, and the scan has returned.
C15_Witness ==
    /\ HashFailedPaths # {}
    /\ files # <<>>
    /\ scan = "returned"

\* C16 as stated: no path appears twice in the DuplicateSet.
C16_NoPathTwice ==
    Compared
    => \A j \in DOMAIN duplicates, k \in DOMAIN duplicates :
         (j # k) => duplicates[j].Path # duplicates[k].Path

\* The target snapshot was built by a scan of -targetDir.
TargetScanned == targetDirPath # NoPath /\ ~targetYaml.given

\* The place of path p in the traversal of the disk.
WalkIndex(p) == CHOOSE i \in DOMAIN disk : disk[i].path = p

\* The records of fs are in the order in which filepath.Walk visits them.
InTraversalOrder(fs) ==
    \A j \in DOMAIN fs, k \in DOMAIN fs :
       (j < k) => WalkIndex(fs[j].Path) < WalkIndex(fs[k].Path)

\* ds lists records of fs in the order in which fs holds them.
InOrderOf(ds, fs) ==
    \E f \in [DOMAIN ds -> DOMAIN fs] :
       /\ \A j \in DOMAIN ds, k \in DOMAIN ds : (j < k) => f[j] < f[k]
       /\ \A k \in DOMAIN ds : ds[k] = fs[f[k]]

\* C17 as stated: for a target snapshot produced by a scan with at least one
\* worker the DuplicateSet is in target-traversal order.
C17_TraversalOrder ==
    (Compared /\ TargetScanned /\ parallelism >= 1) => InTraversalOrder(duplicates)

\* C17 as amended: the DuplicateSet lists the matching target records in the
\* order of the records of the target snapshot; that is target-traversal order
\* for a snapshot produced by a scan with one worker.
C17_SnapshotOrder ==
    Compared
    => /\ InOrderOf(duplicates, targetDirInfo.Files)
       /\ (TargetScanned /\ parallelism = 1) => InTraversalOrder(duplicates)

\* C17's case: a scan with two workers appended the target records out of
\* traversal order, and both are duplicates.
C17_Witness ==
    /\ Compared /\ TargetScanned
    /\ parallelism = 2
    /\ Len(duplicates) = 2
    /\ ~InTraversalOrder(duplicates)

\* C19 as stated: every snapshot handed to CompareFiles keeps every record's
\* path under its baseDir.
C19_PathsUnderBaseDir ==
    Compared => (UnderBaseDir(refDirInfo) /\ UnderBaseDir(targetDirInfo))

\* The paths of the first n files the walker submits, in that order.
Submitted(n) == [k \in 1..n |-> RegularFiles[k].path]

\* The records of fs are the files the walker submitted, in the order in
\* which it submitted them.
InSubmissionOrder(fs) ==
    /\ Len(fs) <= Len(RegularFiles)
    /\ [k \in DOMAIN fs |-> fs[k].Path] = Submitted(Len(fs))

\* C20: with one worker the records of a successful scan are in the order in
\* which the walker submitted the files; a successful scan whose records are
\* in another order had two or more workers.
C20_OneWorkerKeepsOrder ==
    /\ (ScanSucceeded /\ parallelism = 1) => InSubmissionOrder(ret.dirInfo.Files)
    /\ (ScanSucceeded /\ ~InSubmissionOrder(ret.dirInfo.Files)) => parallelism >= 2

\* C20's case: a scan with one worker returned two records.
C20_Witness ==
    /\ ScanSucceeded
    /\ parallelism = 1
    /\ Len(ret.dirInfo.Files) = 2
    /\ ret.dirInfo.Files[1].Path # ret.dirInfo.Files[2].Path

\* C21: every target record that CompareFiles reports in exact-path mode is
\* also reported in name-only mode, for the same pair of snapshots.
C21_ExactWithinNameOnly ==
    (Compared /\ exactPathMatch)
    => Range(duplicates) \subseteq Range(CompareFiles(refDirInfo, targetDirInfo, FALSE))

\* What does hold of the two modes: the containment of C21 for snapshots
\* whose records all lie below their baseDir, none being the baseDir itself.
ExactWithinNameOnlyBelowBaseDir ==
    (/\ Compared /\ exactPathMatch
     /\ UnderBaseDir(refDirInfo) /\ UnderBaseDir(targetDirInfo)
     /\ \A k \in DOMAIN refDirInfo.Files : refDirInfo.Files[k].Path # refDirInfo.BaseDir
     /\ \A k \in DOMAIN targetDirInfo.Files :
          targetDirInfo.Files[k].Path # targetDirInfo.BaseDir)
    => Range(duplicates) \subseteq Range(CompareFiles(refDirInfo, targetDirInfo, FALSE))

\* The run scans the reference tree as reference and as target.
SelfRun ==
    /\ refDirPath = RefRoot /\ ~refYaml.given
    /\ targetDirPath = RefRoot /\ ~targetYaml.given

\* The paths of the regular files under r on disk.
FilesUnder(r) ==
    {e.path : e \in {x \in Range(WalkEntries(disk, r)) : x.kind = "file"}}

\* C22: a run whose target is the reference tree flags every file of the tree
\* as a duplicate, in both modes, and so plans the removal of every file.
C22_SelfRunFlagsEveryFile ==
    (Compared /\ SelfRun) => PathSet(duplicates) = FilesUnder(RefRoot)

\* What does hold of matching a snapshot against itself: CompareFiles(S, S,
\* mode) returns all of S.Files, in the mode of the run, for the reference
\* snapshot and for the target snapshot.
SelfMatchReturnsAll ==
    Compared =>
        /\ CompareFiles(refDirInfo, refDirInfo, exactPathMatch) = refDirInfo.Files
        /\ CompareFiles(targetDirInfo, targetDirInfo, exactPathMatch)
             = targetDirInfo.Files

====
